---- MODULE Spec2Model ----
\* Model of vg_cleanup.py: the volume-group cleanup run (main) and the
\* functions it calls, as a sequential state machine that takes one step per
\* call of run_acli_command.  The control plane's answer to every executed
\* command is chosen by the environment.
EXTENDS Integers, Sequences, FiniteSets, TLC

\* ---------------------------------------------------------------------------
\* Bounds of the model
\* ---------------------------------------------------------------------------
\* longest vg.list output, in lines
MaxLines == 2
\* longest vg.get output, in recognised fields
MaxItems == 2

\* ---------------------------------------------------------------------------
\* Program constants
\* ---------------------------------------------------------------------------
\* run_acli_command(..., timeout=30, ...)
DefaultTimeout == 30
\* timeout=20 of the detach and delete calls
SubTimeout == 20

\* ---------------------------------------------------------------------------
\* Python values.  A str is a sequence of tokens; a token is a line of a table
\* (its whitespace-separated words, each a sequence of characters), a field of
\* a vg.get description, or text in which the parsers recognise nothing.
\* ---------------------------------------------------------------------------
Row(ws) == [t |-> "row", words |-> ws, v |-> ""]
Field(kind, val) == [t |-> kind, words |-> <<>>, v |-> val]
Raw(txt) == [t |-> "raw", words |-> <<>>, v |-> txt]

None == [k |-> "None", s |-> <<>>]
Str(toks) == [k |-> "str", s |-> toks]

\* the words that occur in the model's texts
W_TIMEOUT == <<"T", "I", "M", "E", "O", "U", "T">>
W_Name == <<"N", "a", "m", "e">>
W_Volume == <<"V", "o", "l", "u", "m", "e">>
W_Group == <<"G", "r", "o", "u", "p">>
W_TA == <<"T", "A">>
W_TB == <<"T", "B">>
W_uuid == <<"u">>
W_EXAMPLE_VG1 == <<"E", "X", "A", "M", "P", "L", "E", "_", "V", "G", "1">>
W_EXAMPLE_VG2 == <<"E", "X", "A", "M", "P", "L", "E", "_", "V", "G", "2">>
W_OTHER_VG == <<"O", "T", "H", "E", "R", "_", "V", "G">>
W_ANOTHER_VG == <<"A", "N", "O", "T", "H", "E", "R", "_", "V", "G">>

\* return "TIMEOUT"
TIMEOUT == Str(<<Row(<<W_TIMEOUT>>)>>)
\* return "[DRY RUN] Command not executed"
DryMsg == Str(<<Raw("[DRY RUN] Command not executed")>>)
\* the simulated list of the dry run
SyntheticVgs == <<W_EXAMPLE_VG1, W_EXAMPLE_VG2, W_OTHER_VG, W_ANOTHER_VG>>

\* bool(value) of a str or None
Truthy(val) == val.k = "str" /\ val.s # <<>>

\* str.startswith
StartsWith(w, p) == Len(p) <= Len(w) /\ SubSeq(w, 1, Len(p)) = p

\* sub in word
Contains(w, sub) ==
    \E k \in 0..(Len(w) - Len(sub)) : SubSeq(w, k + 1, k + Len(sub)) = sub

SeqsUpTo(S, n) == UNION {[1..k -> S] : k \in 0..n}
\* those that hold no element twice
DistinctSeqsUpTo(S, n) ==
    {q \in SeqsUpTo(S, n) : \A a, b \in 1..Len(q) : a # b => q[a] # q[b]}

\* ---------------------------------------------------------------------------
\* What the control plane can answer
\* ---------------------------------------------------------------------------
ListLines ==
    { Row(<<W_TA, W_uuid>>), Row(<<W_TB, W_uuid>>),
      Row(<<W_Volume, W_Group, W_Name>>) }

DescribeItems ==
    { Field("atype", "kNone"), Field("atype", "kDirect"),
      Field("att", "vm1"), Field("att", "vm2"),
      Field("index", "0"), Field("index", "1") }

\* stdout of the process, the timeout, or a failure (exit code, exception);
\* a description gives each of its fields once
ListResponses == {None, TIMEOUT} \cup {Str(t) : t \in SeqsUpTo(ListLines, MaxLines)}
DescribeResponses ==
    {None, TIMEOUT} \cup {Str(t) : t \in DistinctSeqsUpTo(DescribeItems, MaxItems)}
MutResponses == {None, TIMEOUT, Str(<<Raw("ok")>>)}

\* the command line
Prefixes == { <<"T">>, <<"T", "A">>, <<"E">> }
ArgTimeouts == { 30, 45 }

\* ---------------------------------------------------------------------------
\* State
\* ---------------------------------------------------------------------------
VARIABLES
    args,           \* the parsed command line: dry_run, force, prefix, timeout
    pc,             \* where main is
    vgs,            \* main: vgs
    target_vgs,     \* main: target_vgs
    i,              \* position of vg_name in target_vgs (1-based)
    attached_vms,   \* main: attached_vms
    disk_indexes,   \* main: disk_indexes
    j,              \* position of the loop of detach_vms / detach_disks (0: none runs)
    success,        \* the success flag of detach_vms / detach_disks
    success_count,
    failure_count,
    summary,        \* the "Operation Summary" lines, once logged
    emitted,        \* the log records of the last step
    issued,         \* history: the commands handed to run_acli_command since
                    \* the current volume group was taken up (or the start)
    outcome,        \* history: how the last volume group processed ended
    returned,       \* history: the names the control plane gave in its list
    inspected,      \* history: what the description read by the check for
                    \* attached VMs said of the current volume group
    reads_failed    \* history: every vg.list and vg.get executed so far failed

vars == <<args, pc, vgs, target_vgs, i, attached_vms, disk_indexes, j, success,
          success_count, failure_count, summary, emitted, issued, outcome,
          returned, inspected, reads_failed>>

\* nothing described yet
NotInspected == [mode |-> "none", has_vms |-> FALSE]

NoSummary == [emitted |-> FALSE, matched |-> 0, success |-> 0, failure |-> 0]

Log(level, msg) == [level |-> level, msg |-> msg]

\* ---------------------------------------------------------------------------
\* run_acli_command
\* ---------------------------------------------------------------------------
\* the value returned: resp is what the process does when it is started
RunAcli(dry_run, resp) == IF dry_run THEN DryMsg ELSE resp

\* what the function logs
RunAcliLog(dry_run, resp) ==
    IF dry_run THEN <<Log("INFO", "[DRY RUN] Would execute")>>
    ELSE <<Log("INFO", "Executing")>> \o
         (IF resp = TIMEOUT THEN <<Log("WARNING", "Command timed out")>>
          ELSE IF resp = None THEN <<Log("ERROR", "Command failed")>>
          ELSE <<>>)

\* run_acli_command without the early return of the dry run
Call_IgnoresDryRun(cmd, vg, arg, dry_run, timeout, confirm, resp) ==
    [cmd |-> cmd, vg |-> vg, arg |-> arg,
     executed |-> TRUE,
     timeout |-> timeout,
     piped_yes |-> confirm,
     failed |-> (resp = None)]

\* the history record of one call: the command, whether a process was
\* started, the timeout it ran under, whether "echo yes |" was put in front,
\* and whether it returned None
Call(cmd, vg, arg, dry_run, timeout, confirm, resp) ==
    [cmd |-> cmd, vg |-> vg, arg |-> arg,
     executed |-> ~dry_run,
     timeout |-> timeout,
     piped_yes |-> (confirm /\ ~dry_run),
     failed |-> (RunAcli(dry_run, resp) = None)]

\* ---------------------------------------------------------------------------
\* Parsing vg.list
\* ---------------------------------------------------------------------------
LineBlank(line) == line.words = <<>>
LineStartsDash(line) ==
    /\ line.words # <<>>
    /\ line.words[1] # <<>>
    /\ line.words[1][1] = "-"
LineHasName(line) == \E k \in 1..Len(line.words) : Contains(line.words[k], W_Name)
LineStartsVolumeGroup(line) ==
    /\ Len(line.words) >= 2
    /\ line.words[1] = W_Volume
    /\ StartsWith(line.words[2], W_Group)

FirstWords(lines) == [k \in 1..Len(lines) |-> lines[k].words[1]]

\* the loop of get_volume_groups
LiveKeep(line) == ~(LineBlank(line) \/ LineStartsDash(line) \/ LineHasName(line))
ParseListLive(out) == FirstWords(SelectSeq(out.s, LiveKeep))

\* the loop of main in the dry run
DryKeep(line) == ~LineBlank(line) /\ ~LineStartsVolumeGroup(line) /\ ~LineStartsDash(line)
ParseListDry(out) == FirstWords(SelectSeq(out.s, DryKeep))

\* get_volume_groups(dry_run), given what run_acli_command returned
GetVolumeGroups(dry_run, out) ==
    IF out = None THEN <<>>
    ELSE IF dry_run THEN <<>>
    ELSE ParseListLive(out)

\* a filter that compares the first character only
IsTarget_FirstCharOnly(vg) == vg # <<>> /\ vg[1] = args.prefix[1]

\* [vg for vg in vgs if vg.startswith(args.prefix)]
IsTarget(vg) == StartsWith(vg, args.prefix)
FilterPrefix(names) == SelectSeq(names, IsTarget)

\* ---------------------------------------------------------------------------
\* Parsing vg.get
\* ---------------------------------------------------------------------------
IsAtype(tok) == tok.t = "atype"
IsVm(tok) == tok.t = "att" /\ tok.v # ""
IsIndex(tok) == tok.t = "index"
Values(toks) == [k \in 1..Len(toks) |-> toks[k].v]

\* re.search(r'volume_group_attachment_type: "([^"]+)"', output)
AttachmentMatch(out) == SelectSeq(out.s, IsAtype)
\* re.findall(r'attachment_list\s*{[^}]*vm_uuid:\s*"([^"]+)"[^}]*}', output)
FindVmUuids(out) == Values(SelectSeq(out.s, IsVm))
\* re.findall(r'index: (\d+)', output)
FindIndexes(out) == Values(SelectSeq(out.s, IsIndex))

\* get_vg_vms that does not look at the attachment type
GetVgVms_IgnoresMode(dry_run, out) ==
    IF out = None \/ dry_run THEN <<>>
    ELSE FindVmUuids(out)

\* get_vg_vms(vg_name, dry_run), given what run_acli_command returned
GetVgVms(dry_run, out) ==
    IF out = None \/ dry_run THEN <<>>
    ELSE IF AttachmentMatch(out) # <<>> /\ AttachmentMatch(out)[1].v = "kNone"
         THEN <<>>
    ELSE FindVmUuids(out)

\* the dry-run branch of main that sets attached_vms
DryAttachedVms(out) ==
    IF Truthy(out)
    THEN IF AttachmentMatch(out) # <<>> /\ AttachmentMatch(out)[1].v # "kNone"
         THEN FindVmUuids(out)
         ELSE <<>>
    ELSE <<>>

\* get_vg_disks that takes a volume group it cannot describe to have disk 0
GetVgDisks_DefaultsToDiskZero(dry_run, out) ==
    IF out = None \/ dry_run THEN <<"0">>
    ELSE FindIndexes(out)

\* get_vg_disks(vg_name, dry_run), given what run_acli_command returned
GetVgDisks(dry_run, out) ==
    IF out = None \/ dry_run THEN <<>>
    ELSE FindIndexes(out)

\* the dry-run branch of main that sets disk_indexes
DryDiskIndexes(out) ==
    IF Truthy(out) THEN FindIndexes(out) ELSE <<"0">>

\* ---------------------------------------------------------------------------
\* Initial state: main after parse_args
\* ---------------------------------------------------------------------------
Init ==
    /\ args \in [dry_run : BOOLEAN, force : BOOLEAN,
                 prefix : Prefixes, timeout : ArgTimeouts]
    /\ pc = "start"
    /\ vgs = <<>>
    /\ target_vgs = <<>>
    /\ i = 0
    /\ attached_vms = <<>>
    /\ disk_indexes = <<>>
    /\ j = 0
    /\ success = TRUE
    /\ success_count = 0
    /\ failure_count = 0
    /\ summary = NoSummary
    /\ emitted = <<Log("INFO", IF args.dry_run THEN "Running in DRY RUN mode"
                                ELSE "Running in LIVE mode")>> \o
                 (IF args.force THEN <<Log("WARNING", "FORCE mode enabled")>> ELSE <<>>) \o
                 <<Log("INFO", "Targeting VGs with prefix"),
                   Log("INFO", "Command timeout set"),
                   Log("INFO", "Retrieving list of volume groups...")>>
    /\ issued = <<>>
    /\ outcome = "none"
    /\ returned = {}
    /\ inspected = NotInspected
    /\ reads_failed = TRUE

\* ---------------------------------------------------------------------------
\* main, up to the loop: list the volume groups and filter them
\* ---------------------------------------------------------------------------
\* a dry run without the simulated list
ListedVgs_NoFallback(resp) ==
    IF args.dry_run
    THEN IF Truthy(RunAcli(FALSE, resp))
         THEN ParseListDry(RunAcli(FALSE, resp))
         ELSE <<>>
    ELSE GetVolumeGroups(FALSE, RunAcli(FALSE, resp))

\* vgs after the listing; resp is the answer to the executed vg.list
ListedVgs(resp) ==
    IF args.dry_run
    THEN IF Truthy(RunAcli(FALSE, resp))
         THEN ParseListDry(RunAcli(FALSE, resp))
         ELSE SyntheticVgs
    ELSE GetVolumeGroups(FALSE, RunAcli(FALSE, resp))

ListCalls(resp) ==
    IF args.dry_run
    THEN << Call("vg.list", <<>>, "", TRUE, DefaultTimeout, FALSE, resp),
            Call("vg.list", <<>>, "", FALSE, DefaultTimeout, FALSE, resp) >>
    ELSE << Call("vg.list", <<>>, "", FALSE, DefaultTimeout, FALSE, resp) >>

\* the first words of the lines the control plane printed; nothing when the
\* command failed or timed out
ReturnedNames(resp) ==
    IF resp = None \/ resp = TIMEOUT THEN {}
    ELSE {resp.s[k].words[1] : k \in {n \in 1..Len(resp.s) : resp.s[n].words # <<>>}}

\* main without the return on an empty target_vgs
AfterListing_NoReturnOnNoMatch(listed, targets) ==
    IF listed = <<>> /\ ~args.dry_run THEN "done" ELSE "loop"

\* the two early returns of main
AfterListing(listed, targets) ==
    IF (listed = <<>> /\ ~args.dry_run) \/ targets = <<>> THEN "done" ELSE "loop"

Enumerate ==
    /\ pc = "start"
    /\ \E resp \in ListResponses :
        LET listed == ListedVgs(resp)
            targets == FilterPrefix(listed)
            after == AfterListing(listed, targets)
        IN
        /\ vgs' = listed
        /\ target_vgs' = targets
        /\ issued' = ListCalls(resp)
        /\ emitted' =
              (IF args.dry_run
               THEN RunAcliLog(TRUE, resp) \o RunAcliLog(FALSE, resp) \o
                    (IF Truthy(RunAcli(FALSE, resp)) THEN <<>>
                     ELSE <<Log("INFO", "[DRY RUN] Using simulated VG list")>>)
               ELSE RunAcliLog(FALSE, resp) \o
                    (IF RunAcli(FALSE, resp) = None
                     THEN <<Log("ERROR", "Failed to retrieve volume groups")>>
                     ELSE <<>>)) \o
              (IF listed = <<>> /\ ~args.dry_run
               THEN <<Log("INFO", "No volume groups found or unable to retrieve the list")>>
               ELSE <<Log("INFO", "Found volume groups")>> \o
                    (IF targets = <<>>
                     THEN <<Log("INFO", "No volume groups found matching the pattern")>>
                     ELSE <<Log("INFO", "Found volume groups matching the pattern")>>))
        /\ pc' = after
        /\ returned' = ReturnedNames(resp)
        /\ reads_failed' = (resp = None)
    /\ UNCHANGED <<args, i, attached_vms, disk_indexes, j, success,
                   success_count, failure_count, summary, outcome, inspected>>

\* ---------------------------------------------------------------------------
\* main, head of the loop: for vg_name in target_vgs
\* ---------------------------------------------------------------------------
\* a loop that passes over every other volume group
NextVg_SkipsOne ==
    /\ pc = "loop"
    /\ i < Len(target_vgs)
    /\ i' = IF i + 2 <= Len(target_vgs) THEN i + 2 ELSE i + 1
    /\ pc' = "inspect"
    /\ attached_vms' = <<>>
    /\ disk_indexes' = <<>>
    /\ issued' = <<>>
    /\ emitted' = <<Log("INFO", "Processing volume group")>>
    /\ inspected' = NotInspected
    /\ UNCHANGED <<args, vgs, target_vgs, j, success, success_count,
                   failure_count, summary, outcome, returned, reads_failed>>

\* attached_vms and disk_indexes are assigned in every turn before they are
\* read, so the values of the turn before are forgotten here; the history
\* starts anew with the volume group
NextVg ==
    /\ pc = "loop"
    /\ i < Len(target_vgs)
    /\ i' = i + 1
    /\ pc' = "inspect"
    /\ attached_vms' = <<>>
    /\ disk_indexes' = <<>>
    /\ issued' = <<>>
    /\ emitted' = <<Log("INFO", "Processing volume group")>>
    /\ inspected' = NotInspected
    /\ UNCHANGED <<args, vgs, target_vgs, j, success, success_count,
                   failure_count, summary, outcome, returned, reads_failed>>

vg_name == target_vgs[i]

\* ---------------------------------------------------------------------------
\* main, loop body: check for attached VMs and decide whether to go on
\* ---------------------------------------------------------------------------
\* attached_vms; resp is the answer to the executed vg.get
AttachedVms(resp) ==
    IF args.dry_run
    THEN DryAttachedVms(RunAcli(FALSE, resp))
    ELSE GetVgVms(args.dry_run, RunAcli(args.dry_run, resp))

\* what a description says: the attachment mode of its first
\* volume_group_attachment_type field, and whether an attachment record of it
\* names a VM
Described(resp) ==
    IF resp = None THEN [mode |-> "failed", has_vms |-> FALSE]
    ELSE [mode |-> IF \A k \in 1..Len(resp.s) : resp.s[k].t # "atype" THEN "absent"
                   ELSE LET first == CHOOSE k \in 1..Len(resp.s) :
                                        /\ resp.s[k].t = "atype"
                                        /\ \A n \in 1..(k - 1) : resp.s[n].t # "atype"
                        IN IF resp.s[first].v = "kNone" THEN "kNone" ELSE "other",
          has_vms |-> \E k \in 1..Len(resp.s) : resp.s[k].t = "att" /\ resp.s[k].v # ""]

\* a gate that lets a volume group through only under --force
ConsumerGate_NeedsForce(vms) ==
    IF ~args.force THEN "skip"
    ELSE IF vms # <<>> THEN "detach" ELSE "advance"

\* ConsumerGate without the test of args.force
ConsumerGate_IgnoresForce(vms) ==
    IF vms = <<>> THEN "advance" ELSE "detach"

\* if attached_vms: if args.force: ... else: ...
ConsumerGate(vms) ==
    IF vms = <<>> THEN "advance"
    ELSE IF args.force THEN "detach" ELSE "skip"

\* what the check for attached VMs logs
AttachedVmsLog(resp) ==
    LET out == RunAcli(FALSE, resp) IN
    IF args.dry_run
    THEN <<Log("INFO", "[DRY RUN] Would check for VMs attached")>> \o
         RunAcliLog(FALSE, resp) \o
         (IF DryAttachedVms(out) # <<>>
          THEN <<Log("INFO", "[DRY RUN] Found VMs attached")>> ELSE <<>>)
    ELSE RunAcliLog(FALSE, resp) \o
         (IF out = None \/ AttachmentMatch(out) = <<>>
               \/ AttachmentMatch(out)[1].v = "kNone"
          THEN <<>> ELSE <<Log("INFO", "Volume group has attachment type")>>) \o
         (IF GetVgVms(FALSE, out) # <<>>
          THEN <<Log("INFO", "Found directly attached VMs")>> ELSE <<>>)

Inspect ==
    /\ pc = "inspect"
    /\ \E resp \in DescribeResponses :
        LET vms == AttachedVms(resp) IN
        /\ attached_vms' = vms
        /\ inspected' = Described(resp)
        /\ reads_failed' = (reads_failed /\ resp = None)
        /\ issued' = Append(issued,
                Call("vg.get", vg_name, "", FALSE, DefaultTimeout, FALSE, resp))
        /\ IF ConsumerGate(vms) # "advance"
           THEN IF ConsumerGate(vms) = "detach"
                THEN \* detach_vms starts: success = True, first vm_uuid
                     /\ pc' = "detach_vms"
                     /\ j' = 1
                     /\ success' = TRUE
                     /\ emitted' = AttachedVmsLog(resp) \o
                                   <<Log("WARNING", "VMs are attached. Continuing with detachment due to --force flag")>>
                     /\ UNCHANGED <<failure_count, outcome>>
                ELSE /\ failure_count' = failure_count + 1
                     /\ outcome' = "SkippedConsumersAttached"
                     /\ pc' = "loop"
                     /\ emitted' = AttachedVmsLog(resp) \o
                                   <<Log("WARNING", "VMs are attached. Skipping (use --force to override)")>>
                     /\ UNCHANGED <<j, success>>
           ELSE /\ pc' = "get_disks"
                /\ emitted' = AttachedVmsLog(resp)
                /\ UNCHANGED <<j, success, failure_count, outcome>>
    /\ UNCHANGED <<args, vgs, target_vgs, i, disk_indexes, success_count, summary,
                   returned>>

\* ---------------------------------------------------------------------------
\* detach_vms: one turn of the loop, and the return to main after the last
\* ---------------------------------------------------------------------------
\* for vm_uuid in vm_uuids
CurrentVm == attached_vms[j]

\* the loop with a break after the first failure
VmLoopEnds_BreakOnFailure(succ) == j = Len(attached_vms) \/ ~succ

VmLoopEnds(succ) == j = Len(attached_vms)

\* detach_vms that never clears its flag
DetachVmSuccess_KeepsFlag(res, dry_run, succ) == succ

\* success after the turn
DetachVmSuccess(res, dry_run, succ) ==
    IF res = None /\ ~dry_run THEN FALSE ELSE succ

DetachVmLog(res, dry_run) ==
    IF res = None /\ ~dry_run THEN <<Log("ERROR", "Failed to detach VM")>>
    ELSE IF res = TIMEOUT /\ ~dry_run
         THEN <<Log("WARNING", "VM detachment command timed out")>>
    ELSE <<Log("INFO", IF dry_run THEN "[DRY RUN] Would have Detached VM" ELSE "Detached VM")>>

\* the state after the turn for attached_vms[j], when the process answers resp
DetachVmStep(resp) ==
    LET res == RunAcli(args.dry_run, resp)
        succ == DetachVmSuccess(res, args.dry_run, success)
        last == VmLoopEnds(succ)
        call == Call("vg.detach_from_vm", vg_name, CurrentVm,
                     args.dry_run, SubTimeout, TRUE, resp)
    IN
    [ result |-> res,
      success |-> IF last THEN TRUE ELSE succ,
      issued |-> Append(issued, call),
      j |-> IF last THEN 0 ELSE j + 1,
      pc |-> IF ~last THEN "detach_vms"
             ELSE IF succ THEN "get_disks" ELSE "loop",
      failure_count |-> IF last /\ ~succ THEN failure_count + 1 ELSE failure_count,
      success_count |-> success_count,
      outcome |-> IF last /\ ~succ THEN "FailedDetachConsumers" ELSE outcome,
      emitted |-> RunAcliLog(args.dry_run, resp) \o DetachVmLog(res, args.dry_run) \o
                  (IF last /\ ~succ
                   THEN <<Log("ERROR", "Failed to detach VMs. Skipping VG deletion.")>>
                   ELSE <<>>) ]

\* the variables a step of a detach or delete loop writes; result and, once
\* the function has returned, j and success are locals that are gone
Take(n) ==
    /\ success' = n.success
    /\ issued' = n.issued
    /\ j' = n.j
    /\ pc' = n.pc
    /\ failure_count' = n.failure_count
    /\ success_count' = n.success_count
    /\ outcome' = n.outcome
    /\ emitted' = n.emitted

DetachVm ==
    /\ pc = "detach_vms"
    /\ \E resp \in MutResponses : Take(DetachVmStep(resp))
    /\ UNCHANGED <<args, vgs, target_vgs, i, attached_vms, disk_indexes, summary,
                   returned, inspected, reads_failed>>

\* ---------------------------------------------------------------------------
\* main, loop body: get the disks; detach_disks with no disk returns True
\* ---------------------------------------------------------------------------
\* disk_indexes; resp is the answer to the executed vg.get
DiskIndexes(resp) ==
    IF args.dry_run
    THEN DryDiskIndexes(RunAcli(FALSE, resp))
    ELSE GetVgDisks(args.dry_run, RunAcli(args.dry_run, resp))

GetDisks ==
    /\ pc = "get_disks"
    /\ \E resp \in DescribeResponses :
        LET disks == DiskIndexes(resp) IN
        /\ disk_indexes' = disks
        /\ reads_failed' = (reads_failed /\ resp = None)
        /\ issued' = Append(issued,
                Call("vg.get", vg_name, "", FALSE, DefaultTimeout, FALSE, resp))
        /\ emitted' =
              (IF args.dry_run
               THEN <<Log("INFO", "[DRY RUN] Would check for disks")>> \o
                    RunAcliLog(FALSE, resp) \o
                    (IF Truthy(RunAcli(FALSE, resp))
                     THEN <<Log("INFO", "[DRY RUN] Found disks")>> ELSE <<>>)
               ELSE RunAcliLog(FALSE, resp) \o
                    <<Log("INFO", "Found disks attached")>>) \o
              (IF disks = <<>> THEN <<Log("INFO", "No disks to detach")>> ELSE <<>>)
        /\ pc' = IF disks = <<>> THEN "delete_vg" ELSE "detach_disks"
        /\ j' = IF disks = <<>> THEN j ELSE 1
        /\ success' = IF disks = <<>> THEN success ELSE TRUE
    /\ UNCHANGED <<args, vgs, target_vgs, i, attached_vms, success_count,
                   failure_count, summary, outcome, returned, inspected>>

\* ---------------------------------------------------------------------------
\* detach_disks: one turn of the loop, and the return to main after the last
\* ---------------------------------------------------------------------------
\* the loop taken from the end of the list
CurrentDisk_Reversed == disk_indexes[Len(disk_indexes) - j + 1]

\* for disk_index in disk_indexes
CurrentDisk == disk_indexes[j]
DiskLoopEnds(succ) == j = Len(disk_indexes)

\* detach_disks whose flag is the result of the last disk only
DetachDiskSuccess_LastWins(res, dry_run, succ) == ~(res = None /\ ~dry_run)

\* success after the turn
DetachDiskSuccess(res, dry_run, succ) ==
    IF res = None /\ ~dry_run THEN FALSE ELSE succ

DetachDiskLog(res, dry_run) ==
    IF res = None /\ ~dry_run THEN <<Log("ERROR", "Failed to detach disk index")>>
    ELSE IF res = TIMEOUT /\ ~dry_run
         THEN <<Log("WARNING", "Disk deletion command timed out")>>
    ELSE <<>>

\* a run that ends at the first volume group whose disks fail to detach
DetachDiskStep_AbortsOnFailure(resp) ==
    LET res == RunAcli(args.dry_run, resp)
        succ == DetachDiskSuccess(res, args.dry_run, success)
        last == DiskLoopEnds(succ)
        call == Call("vg.disk_delete", vg_name, CurrentDisk,
                     args.dry_run, SubTimeout, TRUE, resp)
    IN
    [ result |-> res,
      success |-> IF last THEN TRUE ELSE succ,
      issued |-> Append(issued, call),
      j |-> IF last THEN 0 ELSE j + 1,
      pc |-> IF ~last THEN "detach_disks"
             ELSE IF succ THEN "delete_vg" ELSE "done",
      failure_count |-> IF last /\ ~succ THEN failure_count + 1 ELSE failure_count,
      success_count |-> success_count,
      outcome |-> IF last /\ ~succ THEN "FailedDetachSubResources" ELSE outcome,
      emitted |-> RunAcliLog(args.dry_run, resp) \o DetachDiskLog(res, args.dry_run) ]

\* the state after the turn for disk_indexes[j], when the process answers resp
DetachDiskStep(resp) ==
    LET res == RunAcli(args.dry_run, resp)
        succ == DetachDiskSuccess(res, args.dry_run, success)
        last == DiskLoopEnds(succ)
        call == Call("vg.disk_delete", vg_name, CurrentDisk,
                     args.dry_run, SubTimeout, TRUE, resp)
    IN
    [ result |-> res,
      success |-> IF last THEN TRUE ELSE succ,
      issued |-> Append(issued, call),
      j |-> IF last THEN 0 ELSE j + 1,
      pc |-> IF ~last THEN "detach_disks"
             ELSE IF succ THEN "delete_vg" ELSE "loop",
      failure_count |-> IF last /\ ~succ THEN failure_count + 1 ELSE failure_count,
      success_count |-> success_count,
      outcome |-> IF last /\ ~succ THEN "FailedDetachSubResources" ELSE outcome,
      emitted |-> RunAcliLog(args.dry_run, resp) \o DetachDiskLog(res, args.dry_run) \o
                  (IF last /\ ~succ
                   THEN <<Log("ERROR", "Skipping deletion due to disk detachment failure")>>
                   ELSE <<>>) ]

DetachDisk ==
    /\ pc = "detach_disks"
    /\ \E resp \in MutResponses : Take(DetachDiskStep(resp))
    /\ UNCHANGED <<args, vgs, target_vgs, i, attached_vms, disk_indexes, summary,
                   returned, inspected, reads_failed>>

\* ---------------------------------------------------------------------------
\* delete_vg, and the counting of its result in main
\* ---------------------------------------------------------------------------
\* delete_vg that takes the timeout for a failure
DeleteSuccess_TimeoutFails(res, dry_run) == (res # None /\ res # TIMEOUT) \/ dry_run

\* success = result is not None or result == "TIMEOUT" or dry_run
DeleteSuccess(res, dry_run) == res # None \/ res = TIMEOUT \/ dry_run

DeleteLog(res, dry_run) ==
    IF DeleteSuccess(res, dry_run)
    THEN <<Log("INFO", IF dry_run THEN "[DRY RUN] Would delete volume group"
                       ELSE "Deleted volume group")>>
    ELSE <<Log("ERROR", "Failed to delete volume group")>>

\* a delete that is tried again for as long as it fails
DeleteVgStep_RetriesOnFailure(resp) ==
    LET res == RunAcli(args.dry_run, resp)
        succ == DeleteSuccess(res, args.dry_run)
        call == Call("vg.delete", vg_name, "", args.dry_run, SubTimeout, TRUE, resp)
    IN
    [ result |-> res,
      success |-> success,
      issued |-> Append(issued, call),
      j |-> j,
      pc |-> IF succ THEN "loop" ELSE "delete_vg",
      failure_count |-> failure_count,
      success_count |-> IF succ THEN success_count + 1 ELSE success_count,
      outcome |-> IF succ THEN "Succeeded" ELSE outcome,
      emitted |-> RunAcliLog(args.dry_run, resp) \o DeleteLog(res, args.dry_run) ]

\* main that counts a failed delete in neither counter
DeleteVgStep_FailureNotCounted(resp) ==
    LET res == RunAcli(args.dry_run, resp)
        succ == DeleteSuccess(res, args.dry_run)
        call == Call("vg.delete", vg_name, "", args.dry_run, SubTimeout, TRUE, resp)
    IN
    [ result |-> res,
      success |-> success,
      issued |-> Append(issued, call),
      j |-> j,
      pc |-> "loop",
      failure_count |-> failure_count,
      success_count |-> IF succ THEN success_count + 1 ELSE success_count,
      outcome |-> IF succ THEN "Succeeded" ELSE "FailedDelete",
      emitted |-> RunAcliLog(args.dry_run, resp) \o DeleteLog(res, args.dry_run) ]

\* the state after delete_vg(vg_name), when the process answers resp
DeleteVgStep(resp) ==
    LET res == RunAcli(args.dry_run, resp)
        succ == DeleteSuccess(res, args.dry_run)
        call == Call("vg.delete", vg_name, "", args.dry_run, SubTimeout, TRUE, resp)
    IN
    [ result |-> res,
      success |-> success,
      issued |-> Append(issued, call),
      j |-> j,
      pc |-> "loop",
      failure_count |-> IF succ THEN failure_count ELSE failure_count + 1,
      success_count |-> IF succ THEN success_count + 1 ELSE success_count,
      outcome |-> IF succ THEN "Succeeded" ELSE "FailedDelete",
      emitted |-> RunAcliLog(args.dry_run, resp) \o DeleteLog(res, args.dry_run) ]

DeleteVg ==
    /\ pc = "delete_vg"
    /\ \E resp \in MutResponses : Take(DeleteVgStep(resp))
    /\ UNCHANGED <<args, vgs, target_vgs, i, attached_vms, disk_indexes, summary,
                   returned, inspected, reads_failed>>

\* ---------------------------------------------------------------------------
\* main, after the loop: the summary
\* ---------------------------------------------------------------------------
Summary ==
    /\ pc = "loop"
    /\ i = Len(target_vgs)
    /\ summary' = [emitted |-> TRUE, matched |-> Len(target_vgs),
                   success |-> success_count, failure |-> failure_count]
    /\ emitted' = <<Log("INFO", "Operation Summary")>> \o
                  (IF args.dry_run
                   THEN <<Log("INFO", "This was a dry run. No actual changes were made.")>>
                   ELSE <<>>)
    /\ pc' = "done"
    /\ UNCHANGED <<args, vgs, target_vgs, i, attached_vms, disk_indexes, j,
                   success, success_count, failure_count, issued, outcome,
                   returned, inspected, reads_failed>>

Next ==
    \/ Enumerate
    \/ NextVg
    \/ Inspect
    \/ DetachVm
    \/ GetDisks
    \/ DetachDisk
    \/ DeleteVg
    \/ Summary

Spec == Init /\ [][Next]_vars

\* every executor call returns within its timeout and main is sequential, so
\* a step that can be taken is taken
FairSpec == Spec /\ WF_vars(Next)

\* ---------------------------------------------------------------------------
\* Properties
\* ---------------------------------------------------------------------------
Mutating == {"vg.detach_from_vm", "vg.disk_delete", "vg.delete"}

\* the calls of one command in the history
CallsOf(cmd) == SelectSeq(issued, LAMBDA c : c.cmd = cmd)
Args(calls) == [k \in 1..Len(calls) |-> calls[k].arg]
AnyFailed(calls) == \E k \in 1..Len(calls) : calls[k].failed

\* the volume group of the history has reached its outcome
Finished == pc \in {"loop", "done"} /\ outcome # "none"

\* C1: a volume group with a non-empty consumer list, without --force, ends
\* as SkippedConsumersAttached, adds one to failure_count and nothing to
\* success_count, and no detach, disk delete or delete is issued for it.
C1_SkipNoMutation ==
    /\ [](attached_vms # <<>> /\ ~args.force =>
            /\ Finished
            /\ outcome = "SkippedConsumersAttached"
            /\ \A k \in 1..Len(issued) : issued[k].cmd \notin Mutating)
    /\ [][attached_vms' # attached_vms /\ attached_vms' # <<>> /\ ~args.force =>
            /\ failure_count' = failure_count + 1
            /\ success_count' = success_count
            /\ outcome' = "SkippedConsumersAttached"]_vars

C1_Witness ==
    /\ ~args.force
    /\ Len(attached_vms) = 2
    /\ Finished
    /\ outcome = "SkippedConsumersAttached"
    /\ failure_count = 2

\* C2 as stated: after a consumer detach that failed, no detach is issued for
\* a later consumer of the volume group.
C2_NoDetachAfterFailure ==
    \A p, q \in 1..Len(issued) :
        (p < q /\ issued[p].cmd = "vg.detach_from_vm" /\ issued[p].failed)
            => issued[q].cmd # "vg.detach_from_vm"

\* C2 amended: in force mode the detach is issued for every consumer of the
\* list, in list order, also after one of them failed; a failure only marks
\* the volume group, which ends as FailedDetachConsumers once the list is
\* through.
C2_AllConsumersAttempted ==
    LET d == CallsOf("vg.detach_from_vm") IN
    d # <<>> =>
        /\ args.force
        /\ Len(d) <= Len(attached_vms)
        /\ Args(d) = SubSeq(attached_vms, 1, Len(d))
        /\ pc = "detach_vms" => Len(d) = j - 1
        /\ pc # "detach_vms" => Len(d) = Len(attached_vms)
        /\ (AnyFailed(d) /\ pc # "detach_vms") =>
                Finished /\ outcome = "FailedDetachConsumers"

C2_Witness ==
    LET d == CallsOf("vg.detach_from_vm") IN
    /\ Len(d) = 2
    /\ d[1].failed
    /\ d[1].arg # d[2].arg
    /\ outcome = "FailedDetachConsumers"

\* C3: once a consumer detach of a volume group has failed, no disk delete and
\* no delete is issued for the volume group, and the volume group adds one to
\* failure_count.
C3_FailedDetachStops ==
    /\ [](AnyFailed(CallsOf("vg.detach_from_vm")) =>
            /\ CallsOf("vg.disk_delete") = <<>>
            /\ CallsOf("vg.delete") = <<>>
            /\ pc \in {"detach_vms", "loop", "done"}
            /\ pc # "detach_vms" => outcome = "FailedDetachConsumers")
    /\ [][(pc = "detach_vms" /\ pc' # "detach_vms"
             /\ AnyFailed(SelectSeq(issued', LAMBDA c : c.cmd = "vg.detach_from_vm"))) =>
            /\ failure_count' = failure_count + 1
            /\ success_count' = success_count]_vars

C3_Witness ==
    LET d == CallsOf("vg.detach_from_vm") IN
    /\ Len(d) = 2
    /\ ~d[1].failed
    /\ d[2].failed
    /\ pc = "loop"
    /\ failure_count = 2

\* C4: in a dry run the only commands for which a process is started are
\* vg.list and vg.get.
C4_DryRunReadOnly ==
    args.dry_run =>
        \A k \in 1..Len(issued) :
            issued[k].executed => issued[k].cmd \in {"vg.list", "vg.get"}

C4_Witness ==
    /\ args.dry_run
    /\ args.force
    /\ CallsOf("vg.detach_from_vm") # <<>>
    /\ CallsOf("vg.disk_delete") # <<>>
    /\ CallsOf("vg.delete") # <<>>
    /\ \A k \in 1..Len(issued) : issued[k].cmd \in Mutating => ~issued[k].executed

\* C5 as stated: every run that ends has emitted the summary.
C5_SummaryAlways == pc = "done" => summary.emitted

\* C5 amended: every run ends; it emits the summary exactly when at least one
\* volume group matches the prefix, and otherwise returns after logging that
\* no volume group was found.
C5_SummaryIffMatched ==
    /\ <>(pc = "done")
    /\ [](pc = "done" =>
            /\ summary.emitted <=> target_vgs # <<>>
            /\ summary.emitted => summary.matched = Len(target_vgs)
            /\ ~summary.emitted =>
                  \E k \in 1..Len(emitted) :
                      emitted[k].msg \in
                        {"No volume groups found or unable to retrieve the list",
                         "No volume groups found matching the pattern"})

C5_Witness ==
    /\ pc = "done"
    /\ summary.emitted
    /\ summary.matched = 2
    /\ summary.failure = 1

\* C6: no vg.get, detach, disk delete or delete is issued with a listed name
\* that does not start with the prefix.
C6_OnlyPrefixed ==
    \A n \in 1..Len(vgs) :
        ~StartsWith(vgs[n], args.prefix) =>
            \A k \in 1..Len(issued) : issued[k].vg # vgs[n]

C6_Witness ==
    /\ Len(vgs) = 2
    /\ ~StartsWith(vgs[1], args.prefix)
    /\ vgs[1][1] = args.prefix[1]
    /\ StartsWith(vgs[2], args.prefix)
    /\ CallsOf("vg.delete") # <<>>

\* the part of a step's result that decides how the run goes on
Core(n) == [n EXCEPT !.result = None, !.emitted = <<>>]
HasLevel(log, level) == \E k \in 1..Len(log) : log[k].level = level
Outputs == MutResponses \ {None, TIMEOUT}

\* C7: a detach, disk delete or delete that times out leaves the run in the
\* state in which the same command returning output leaves it (same position,
\* flag, counters, outcome and history), and logs a warning that the command
\* returning output does not log.
C7_TimeoutAsOutput ==
    ~args.dry_run =>
        \A out \in Outputs :
            /\ pc = "detach_vms" =>
                /\ Core(DetachVmStep(TIMEOUT)) = Core(DetachVmStep(out))
                /\ HasLevel(DetachVmStep(TIMEOUT).emitted, "WARNING")
                /\ ~HasLevel(DetachVmStep(out).emitted, "WARNING")
            /\ pc = "detach_disks" =>
                /\ Core(DetachDiskStep(TIMEOUT)) = Core(DetachDiskStep(out))
                /\ HasLevel(DetachDiskStep(TIMEOUT).emitted, "WARNING")
                /\ ~HasLevel(DetachDiskStep(out).emitted, "WARNING")
            /\ pc = "delete_vg" =>
                /\ Core(DeleteVgStep(TIMEOUT)) = Core(DeleteVgStep(out))
                /\ DeleteVgStep(TIMEOUT).outcome = "Succeeded"
                /\ HasLevel(DeleteVgStep(TIMEOUT).emitted, "WARNING")
                /\ ~HasLevel(DeleteVgStep(out).emitted, "WARNING")

C7_Witness ==
    /\ ~args.dry_run
    /\ \E k \in 1..Len(emitted) : emitted[k].msg = "Command timed out"
    /\ CallsOf("vg.detach_from_vm") # <<>>
    /\ CallsOf("vg.disk_delete") # <<>>
    /\ issued[Len(issued)].cmd = "vg.delete"
    /\ outcome = "Succeeded"
    /\ HasLevel(emitted, "WARNING")

\* C8: in a live run vg.delete is issued only after a disk delete has been
\* issued for every index and none of them failed; after a failed disk delete
\* the remaining indexes are still attempted, vg.delete is not issued and the
\* volume group adds one to failure_count.
C8_DeleteAfterAllDisks ==
    /\ [](LET d == CallsOf("vg.disk_delete") IN
          ~args.dry_run =>
            /\ CallsOf("vg.delete") # <<>> =>
                  Args(d) = disk_indexes /\ ~AnyFailed(d)
            /\ AnyFailed(d) =>
                  /\ CallsOf("vg.delete") = <<>>
                  /\ pc \in {"detach_disks", "loop", "done"}
                  /\ pc # "detach_disks" =>
                        /\ Args(d) = disk_indexes
                        /\ outcome = "FailedDetachSubResources")
    /\ [][(~args.dry_run /\ pc = "detach_disks" /\ pc' \notin {"detach_disks", "delete_vg"}) =>
            /\ failure_count' = failure_count + 1
            /\ success_count' = success_count]_vars

C8_Witness ==
    LET d == CallsOf("vg.disk_delete") IN
    /\ ~args.dry_run
    /\ Len(d) = 2
    /\ d[1].failed
    /\ ~d[2].failed
    /\ Finished
    /\ outcome = "FailedDetachSubResources"

\* the stage of a command within the processing of one volume group
Stage(cmd) ==
    CASE cmd = "vg.detach_from_vm" -> 1
      [] cmd = "vg.disk_delete" -> 2
      [] cmd = "vg.delete" -> 3
      [] OTHER -> 0

\* C9: for each volume group every detach precedes every disk delete and every
\* disk delete precedes the delete, and the detaches and the disk deletes are
\* issued in the order of attached_vms and of disk_indexes.
C9_DependencyOrder ==
    LET m == SelectSeq(issued, LAMBDA c : c.cmd \in Mutating)
        v == CallsOf("vg.detach_from_vm")
        d == CallsOf("vg.disk_delete")
    IN
    /\ \A p, q \in 1..Len(m) : p < q => Stage(m[p].cmd) <= Stage(m[q].cmd)
    /\ Len(CallsOf("vg.delete")) <= 1
    /\ Len(v) <= Len(attached_vms) /\ Args(v) = SubSeq(attached_vms, 1, Len(v))
    /\ d # <<>> => Len(d) <= Len(disk_indexes) /\ Args(d) = SubSeq(disk_indexes, 1, Len(d))
    /\ \A k \in 1..Len(m) : m[k].vg = vg_name

C9_Witness ==
    /\ Args(CallsOf("vg.detach_from_vm")) = <<"vm2", "vm1">>
    /\ Args(CallsOf("vg.disk_delete")) = <<"1", "0">>
    /\ Len(CallsOf("vg.delete")) = 1

\* the number of volume groups the loop is through with
Processed == IF pc \in {"start", "loop", "done"} THEN i ELSE i - 1

\* C10: every volume group the loop gets through with adds one to exactly one
\* counter, to success_count if and only if it ends as Succeeded, which is when
\* its delete was issued and did not fail; the summary has success + failure =
\* matched.
C10_CountedOnce ==
    /\ [](/\ success_count + failure_count = Processed
          /\ Finished =>
                (outcome = "Succeeded" <=>
                    /\ issued[Len(issued)].cmd = "vg.delete"
                    /\ ~issued[Len(issued)].failed)
          /\ summary.emitted =>
                /\ summary.success + summary.failure = summary.matched
                /\ summary.matched = Len(target_vgs)
                /\ summary.success = success_count
                /\ summary.failure = failure_count)
    /\ [][LET ds == success_count' - success_count
              df == failure_count' - failure_count
          IN /\ <<ds, df>> \in {<<0, 0>>, <<1, 0>>, <<0, 1>>}
             /\ ds + df = Processed' - Processed
             /\ ds = 1 => outcome' = "Succeeded"
             /\ df = 1 => outcome' \in {"SkippedConsumersAttached", "FailedDetachConsumers",
                                        "FailedDetachSubResources", "FailedDelete"}]_vars

C10_Witness ==
    /\ summary.emitted
    /\ summary.matched = 2
    /\ summary.success = 1
    /\ summary.failure = 1
    /\ outcome = "FailedDelete"

\* C11: every vg.list and every vg.get the run executes is run with a timeout
\* of args.timeout seconds, whatever value --timeout was given.
C11_ReadTimeoutFromFlag ==
    \A k \in 1..Len(issued) :
        (issued[k].executed /\ issued[k].cmd \in {"vg.list", "vg.get"})
            => issued[k].timeout = args.timeout

\* the calls of the history are the describes, then the disk deletes, then
\* the delete, and no other
DescribeDiskDelete ==
    issued = CallsOf("vg.get") \o CallsOf("vg.disk_delete") \o CallsOf("vg.delete")

\* the outcome that the results of the disk deletes and of the delete decide
OutcomeOfDeletes ==
    IF AnyFailed(CallsOf("vg.disk_delete")) THEN "FailedDetachSubResources"
    ELSE IF AnyFailed(CallsOf("vg.delete")) THEN "FailedDelete"
    ELSE "Succeeded"

\* C12: a volume group whose extracted consumer list is empty goes through the
\* gate with --force and without it: it is never skipped and no detach is
\* issued for it, and its calls and its outcome are those that the
\* descriptions and the results of the calls decide, in which args.force has no
\* part: the describes, a disk delete for each index in order, the delete
\* only after all of them succeeded, and the outcome of the deletes.
C12_EmptyListIgnoresForce ==
    /\ [](\A f \in BOOLEAN :
            (args.force = f /\ inspected.mode # "none" /\ attached_vms = <<>>) =>
                /\ pc \notin {"inspect", "detach_vms"}
                /\ DescribeDiskDelete
                /\ Len(CallsOf("vg.get")) = (IF pc = "get_disks" THEN 1 ELSE 2)
                /\ Args(CallsOf("vg.disk_delete")) =
                       SubSeq(disk_indexes, 1, Len(CallsOf("vg.disk_delete")))
                /\ pc = "detach_disks" => Len(CallsOf("vg.disk_delete")) = j - 1
                /\ pc = "delete_vg" =>
                       /\ Len(CallsOf("vg.disk_delete")) = Len(disk_indexes)
                       /\ CallsOf("vg.delete") = <<>>
                /\ Finished =>
                       /\ Len(CallsOf("vg.delete")) =
                              (IF AnyFailed(CallsOf("vg.disk_delete")) THEN 0 ELSE 1)
                       /\ Len(CallsOf("vg.disk_delete")) = Len(disk_indexes)
                       /\ outcome = OutcomeOfDeletes)
    /\ [][(pc = "inspect" /\ attached_vms' = <<>>) =>
              /\ pc' = "get_disks"
              /\ failure_count' = failure_count
              /\ outcome' = outcome]_vars

C12_Witness ==
    /\ ~args.force
    /\ ~args.dry_run
    /\ inspected.mode = "other"
    /\ attached_vms = <<>>
    /\ Finished
    /\ outcome = "FailedDelete"
    /\ Len(CallsOf("vg.disk_delete")) = 2

FailureOutcomes ==
    {"SkippedConsumersAttached", "FailedDetachConsumers",
     "FailedDetachSubResources", "FailedDelete"}

\* the outcome that the volume group's own consumer list and the results of
\* its own calls decide
OutcomeOfHistory ==
    IF attached_vms # <<>> /\ ~args.force THEN "SkippedConsumersAttached"
    ELSE IF AnyFailed(CallsOf("vg.detach_from_vm")) THEN "FailedDetachConsumers"
    ELSE OutcomeOfDeletes

\* C13: a volume group that ends in a failure does not end the run: while
\* volume groups remain the run is back at the head of the loop, its next step
\* takes the next one, and every matched volume group gets to an outcome
\* before the run ends with its summary; the outcome of a volume group is the
\* one its own consumer list and the results of its own calls decide, whatever
\* the outcomes and counts before it.
C13_FailureDoesNotAbort ==
    /\ [](Finished /\ i >= 1 =>
            /\ outcome = OutcomeOfHistory
            /\ i < Len(target_vgs) => pc = "loop"
            /\ pc = "done" => (i = Len(target_vgs) /\ summary.emitted))
    /\ [][(Finished /\ outcome \in FailureOutcomes /\ i < Len(target_vgs)) =>
              /\ i' = i + 1
              /\ pc' = "inspect"
              /\ vg_name' = target_vgs[i + 1]
              /\ issued' = <<>>]_vars
    /\ (Finished /\ outcome \in FailureOutcomes /\ i < Len(target_vgs))
          ~> (pc = "done" /\ Finished /\ Processed = Len(target_vgs))

C13_Witness ==
    /\ Finished
    /\ Processed = 2
    /\ outcome = "Succeeded"
    /\ failure_count = 1
    /\ success_count = 1
    /\ pc = "done"

\* C14: for the same flags and the same answers to the reads, failures and
\* timeouts included, the dry run selects the volume groups, extracts the
\* consumer list and the disk indexes, and so takes the gate branch and intends
\* the detaches and deletes, that the live run does: whatever the control
\* plane answers to the read that is next, the dry-run code gets from it what
\* the live code gets, and the consumer list in hand is empty exactly when the
\* live extractor finds the description to name no VM.
C14_DryRunMirrorsLive ==
    args.dry_run =>
        /\ pc = "start" =>
              \A resp \in ListResponses :
                  ListedVgs(resp) = GetVolumeGroups(FALSE, RunAcli(FALSE, resp))
        /\ pc = "inspect" =>
              \A resp \in DescribeResponses :
                  AttachedVms(resp) = GetVgVms(FALSE, RunAcli(FALSE, resp))
        /\ pc = "get_disks" =>
              \A resp \in DescribeResponses :
                  DiskIndexes(resp) = GetVgDisks(FALSE, RunAcli(FALSE, resp))
        /\ inspected.mode # "none" =>
              (attached_vms = <<>> <=>
                  (inspected.mode \in {"failed", "kNone"} \/ ~inspected.has_vms))

\* every describe of the volume group so far has failed
DescribesFailed ==
    /\ CallsOf("vg.get") # <<>>
    /\ \A k \in 1..Len(CallsOf("vg.get")) : CallsOf("vg.get")[k].failed

\* C15: in a live run a volume group whose describes fail is taken to have no
\* attached VM and no disk: no detach and no disk delete is issued for it, it
\* is not skipped, the delete is issued, and the result of the delete alone
\* decides the outcome, Succeeded or FailedDelete, after which the run is back
\* at the head of the loop.
C15_FailedDescribeDeletes ==
    (~args.dry_run /\ DescribesFailed) =>
        /\ inspected.mode = "failed"
        /\ attached_vms = <<>>
        /\ disk_indexes = <<>>
        /\ CallsOf("vg.detach_from_vm") = <<>>
        /\ CallsOf("vg.disk_delete") = <<>>
        /\ pc \in {"get_disks", "delete_vg", "loop", "done"}
        /\ pc = "get_disks" <=> Len(CallsOf("vg.get")) = 1
        /\ pc = "delete_vg" => CallsOf("vg.delete") = <<>>
        /\ pc \in {"loop", "done"} =>
              /\ Len(CallsOf("vg.delete")) = 1
              /\ issued[Len(issued)].cmd = "vg.delete"
              /\ outcome = (IF issued[Len(issued)].failed
                            THEN "FailedDelete" ELSE "Succeeded")

C15_Witness ==
    /\ ~args.dry_run
    /\ DescribesFailed
    /\ Len(CallsOf("vg.get")) = 2
    /\ pc = "loop"
    /\ outcome = "FailedDelete"
    /\ failure_count = 1

\* a dry run in which the vg.list and every vg.get so far failed
RehearsalBlind == args.dry_run /\ pc # "start" /\ reads_failed

\* C16 as stated: a dry run in which vg.list and every vg.get fail works on
\* the simulated names that start with the prefix and ends with a summary
\* whose failure count is zero.
C16_BlindRehearsalSummary ==
    (RehearsalBlind /\ pc = "done") =>
        /\ target_vgs = FilterPrefix(SyntheticVgs)
        /\ summary.emitted
        /\ summary.failure = 0

\* C16 amended: a dry run in which vg.list and every vg.get fail works on the
\* simulated names that start with the prefix, finds no attached VM, executes
\* no detach, disk delete or delete, and counts no failure; it ends with a
\* summary, all matched names counted as successes, exactly when some
\* simulated name starts with the prefix, and otherwise returns without one.
C16_BlindRehearsal ==
    RehearsalBlind =>
        /\ vgs = <<W_EXAMPLE_VG1, W_EXAMPLE_VG2, W_OTHER_VG, W_ANOTHER_VG>>
        /\ target_vgs = FilterPrefix(vgs)
        /\ attached_vms = <<>>
        /\ \A k \in 1..Len(issued) :
              issued[k].cmd \in Mutating => ~issued[k].executed
        /\ failure_count = 0
        /\ success_count = Processed
        /\ pc = "done" =>
              /\ summary.emitted <=> (\E n \in 1..Len(vgs) : StartsWith(vgs[n], args.prefix))
              /\ summary.emitted =>
                    /\ summary.failure = 0
                    /\ summary.matched = Len(target_vgs)
                    /\ summary.success = summary.matched

C16_Witness ==
    /\ RehearsalBlind
    /\ pc = "done"
    /\ summary.emitted
    /\ summary.matched = 2
    /\ summary.success = 2
    /\ summary.failure = 0

\* the volume group of the history was skipped at the gate
Blocked ==
    /\ Finished
    /\ outcome = "SkippedConsumersAttached"
    /\ issued[Len(issued)].cmd = "vg.get"

\* C17: in the live run and in the dry run alike, when the description gives
\* the attachment mode kNone the consumer list is empty even if the
\* description has attachment records that name VMs, and the volume group
\* goes through the gate without --force: it is not skipped and nothing is
\* detached; when the description gives another mode, the consumer list is
\* non-empty exactly when attachment records name VMs, and the volume group is
\* skipped exactly when the list is non-empty and --force is not given.
C17_ModeNoneMeansNoConsumers ==
    /\ [](inspected.mode = "kNone" =>
            /\ attached_vms = <<>>
            /\ ~Blocked
            /\ pc # "detach_vms"
            /\ CallsOf("vg.detach_from_vm") = <<>>)
    /\ [](inspected.mode = "other" =>
            /\ attached_vms # <<>> <=> inspected.has_vms
            /\ Blocked <=> (inspected.has_vms /\ ~args.force))
    /\ [][(pc = "inspect" /\ inspected'.mode = "kNone") =>
              /\ pc' = "get_disks"
              /\ failure_count' = failure_count]_vars
    /\ [][(pc = "inspect" /\ inspected'.mode = "other") =>
              /\ pc' = "loop" <=> (attached_vms' # <<>> /\ ~args.force)
              /\ pc' = "get_disks" <=> attached_vms' = <<>>]_vars

C17_Witness ==
    /\ args.dry_run
    /\ ~args.force
    /\ inspected.mode = "kNone"
    /\ inspected.has_vms
    /\ Finished
    /\ outcome = "Succeeded"

\* the last call of the history, a call of cmd, failed or timed out
LastDidNotSucceed(cmd) ==
    /\ issued # <<>>
    /\ issued[Len(issued)].cmd = cmd
    /\ issued[Len(issued)].executed
    /\ (issued[Len(issued)].failed \/ HasLevel(emitted, "WARNING"))

\* C18: nothing is tried again. For each volume group the k-th detach is for
\* the k-th attached VM and there are no more detaches than attached VMs, the
\* k-th disk delete is for the k-th index and there are no more disk deletes
\* than indexes, and there is at most one delete; a step after a detach or a
\* disk delete that failed or timed out goes on to the next entry or leaves
\* the loop, and the step of the delete leaves the volume group whatever the
\* result.
C18_NoRetry ==
    /\ [](/\ Len(CallsOf("vg.detach_from_vm")) <= Len(attached_vms)
          /\ \A k \in 1..Len(CallsOf("vg.detach_from_vm")) :
                CallsOf("vg.detach_from_vm")[k].arg = attached_vms[k]
          /\ Len(CallsOf("vg.disk_delete")) <= Len(disk_indexes)
          /\ \A k \in 1..Len(CallsOf("vg.disk_delete")) :
                CallsOf("vg.disk_delete")[k].arg = disk_indexes[k]
          /\ Len(CallsOf("vg.delete")) <= 1
          /\ pc = "detach_vms" => Len(CallsOf("vg.detach_from_vm")) = j - 1
          /\ pc = "detach_disks" => Len(CallsOf("vg.disk_delete")) = j - 1)
    /\ [][(pc \in {"detach_vms", "detach_disks"}) =>
              /\ Len(issued') = Len(issued) + 1
              /\ (pc' = pc) => (j' = j + 1)]_vars
    /\ [][(pc = "delete_vg") =>
              /\ Len(issued') = Len(issued) + 1
              /\ pc' = "loop"]_vars
    /\ [][(LastDidNotSucceed("vg.detach_from_vm") \/ LastDidNotSucceed("vg.disk_delete")
              \/ LastDidNotSucceed("vg.delete")) =>
              \/ issued' = <<>>
              \/ issued' = issued
              \/ /\ Len(issued') = Len(issued) + 1
                 /\ <<issued'[Len(issued')].cmd, issued'[Len(issued')].arg>> #
                        <<issued[Len(issued)].cmd, issued[Len(issued)].arg>>]_vars

C18_Witness ==
    /\ ~args.dry_run
    /\ Finished
    /\ outcome = "FailedDelete"
    /\ Len(CallsOf("vg.detach_from_vm")) = 2
    /\ CallsOf("vg.detach_from_vm")[1].failed = FALSE
    /\ Len(CallsOf("vg.disk_delete")) = 2
    /\ Len(CallsOf("vg.delete")) = 1

Range(seq) == {seq[k] : k \in 1..Len(seq)}

\* the names the run may work on: those the control plane printed in its list
\* and, in a dry run that fell back on it, those of the simulated list
KnownNames ==
    returned \cup (IF args.dry_run /\ vgs = SyntheticVgs THEN Range(SyntheticVgs) ELSE {})

\* C19: every vg.get, detach, disk delete and delete is issued on a name that
\* the control plane printed in its list output, or on a simulated name in a
\* dry run that fell back on the simulated list; the word that stands for a
\* timeout of vg.list is never taken for the name of a volume group, whatever
\* the prefix.
C19_OnlyReturnedNames ==
    \A k \in 1..Len(issued) :
        issued[k].cmd # "vg.list" =>
            /\ issued[k].vg \in KnownNames
            /\ issued[k].vg # W_TIMEOUT

\* C20: when every call of the executor returns, the run ends. It takes the
\* matched volume groups one at a time in the order of the list, each once,
\* the next one only when the one before has been left, and it ends only when
\* all of them have been taken; every call is for the volume group being
\* processed, and a volume group gets at most two describes, one detach for
\* each attached VM, one disk delete for each index and one delete.
C20_TerminatesBounded ==
    /\ <>(pc = "done")
    /\ [](pc = "done" => Processed = Len(target_vgs))
    /\ [](i >= 1 =>
            /\ \A k \in 1..Len(issued) : issued[k].vg = target_vgs[i]
            /\ Len(CallsOf("vg.get")) <= 2
            /\ Len(issued) <= 2 + Len(attached_vms) + Len(disk_indexes) + 1)
    /\ [][(i' # i) =>
              /\ i' = i + 1
              /\ pc = "loop"
              /\ pc' = "inspect"
              /\ issued' = <<>>]_vars
    /\ [][(pc' = "done") => (pc \in {"start", "loop"} /\ i = Len(target_vgs))]_vars

C20_Witness ==
    /\ pc = "done"
    /\ i = 2
    /\ ~args.dry_run
    /\ Len(attached_vms) = 2
    /\ Len(disk_indexes) = 2
    /\ Len(issued) = 7
====
